---- MODULE Spec2Model ----
(***************************************************************************)
(* Model of the static blog engine blog/assets/blog.js: the frontmatter    *)
(* parser, the tag normalizer, the tag aggregator and the two page         *)
(* controllers (pageIndex, pagePost) with their network retrievals.  The   *)
(* file holds two revisions of the engine; the model follows the later     *)
(* one (lines 130-303), which adds the tag bar and the visit beacon.       *)
(*                                                                         *)
(* A JavaScript string is a sequence of one-character strings.  A          *)
(* JavaScript value that may be undefined, null, a string or an array of   *)
(* strings is a record [t, v] with t in {"undef", "null", "str", "list"}.  *)
(* Date formatting (fmtDate), thumbnails, reading time and the markdown    *)
(* renderer produce markup only and are left out: a card is its link       *)
(* target, title and tags, an article its title, tags and body text.       *)
(* A page view runs its controller once.                                   *)
(***************************************************************************)
EXTENDS Integers, Sequences, FiniteSets, TLC

VARIABLES
  pc,        \* position of the running controller or function
  md,        \* parseFrontmatter: the raw document passed in
  parsed,    \* parseFrontmatter: the returned {meta, body}
  tagsArg,   \* normalizeTags: the argument
  tagsRet,   \* normalizeTags: the returned value
  view,      \* which page shell runs: "index", "post" or "none"
  url,       \* location.search: the tag, page and slug query parameters
  search,    \* value of the #search input
  listening, \* whether applyFilter is registered as the input listener
  index,     \* pageIndex: the full collection index.posts || []
  posts,     \* pageIndex: the (tag-filtered) collection applyFilter closes over
  grid,      \* children of #grid, one card per rendered post
  count,     \* number shown in the #count label
  tagbar,    \* children of #tagbar
  subtitle,  \* text of #heroSubtitle (tag and number of posts), or none
  notice,    \* inline notice put into #post, or "none"
  thrown,    \* error with which the controller's promise rejected, or "none"
  requests,  \* every fetch() issued during the page view, in order
  article    \* pagePost: the rendered title, tags and body

vars == <<pc, md, parsed, tagsArg, tagsRet, view, url, search, listening,
          index, posts, grid, count, tagbar, subtitle, notice, thrown,
          requests, article>>

----------------------------------------------------------------------------
(* JavaScript values *)

Undef == [t |-> "undef", v |-> <<>>]
Null == [t |-> "null", v |-> <<>>]
Str(s) == [t |-> "str", v |-> s]
List(l) == [t |-> "list", v |-> l]

\* !x for undefined, null, a string or an array
Falsy(x) == x.t \in {"undef", "null"} \/ (x.t = "str" /\ x.v = <<>>)

----------------------------------------------------------------------------
(* String built-ins, with JavaScript's 0-based indices *)

IsWs(c) == c \in {" ", "\n"}

RECURSIVE trimStart(_)
trimStart(s) ==
  IF s # <<>> /\ IsWs(Head(s)) THEN trimStart(Tail(s)) ELSE s

RECURSIVE trimEnd(_)
trimEnd(s) ==
  IF s # <<>> /\ IsWs(s[Len(s)]) THEN trimEnd(SubSeq(s, 1, Len(s) - 1)) ELSE s

trim(s) == trimEnd(trimStart(s))

startsWith(s, p) == Len(s) >= Len(p) /\ SubSeq(s, 1, Len(p)) = p

endsWith(s, p) == Len(s) >= Len(p) /\ SubSeq(s, Len(s) - Len(p) + 1, Len(s)) = p

\* s.indexOf(p, from): the first position >= from where p occurs, or -1
RECURSIVE indexOf(_, _, _)
indexOf(s, p, from) ==
  IF from + Len(p) > Len(s) THEN -1
  ELSE IF SubSeq(s, from + 1, from + Len(p)) = p THEN from
  ELSE indexOf(s, p, from + 1)

\* s.slice(a, b) for 0 <= a and 0 <= b
slice(s, a, b) == SubSeq(s, a + 1, IF b > Len(s) THEN Len(s) ELSE b)

\* s.split(c) for a one-character separator c
RECURSIVE split(_, _)
split(s, c) ==
  LET i == indexOf(s, <<c>>, 0)
  IN IF i = -1 THEN <<s>>
     ELSE <<slice(s, 0, i)>> \o split(slice(s, i + 1, Len(s)), c)

\* list.join(c)
RECURSIVE join(_, _)
join(l, c) ==
  IF l = <<>> THEN <<>>
  ELSE IF Len(l) = 1 THEN l[1]
  ELSE l[1] \o <<c>> \o join(Tail(l), c)

lowerChar(c) ==
  CASE c = "A" -> "a"
    [] c = "B" -> "b"
    [] c = "C" -> "c"
    [] c = "D" -> "d"
    [] c = "H" -> "h"
    [] c = "I" -> "i"
    [] c = "M" -> "m"
    [] OTHER -> c

toLowerCase(s) == [i \in 1..Len(s) |-> lowerChar(s[i])]

includes(s, p) == indexOf(s, p, 0) # -1

\* l.map(s => s.trim()).filter(Boolean)
RECURSIVE trimAndDropEmpty(_)
trimAndDropEmpty(l) ==
  IF l = <<>> THEN <<>>
  ELSE LET e == trim(Head(l))
       IN (IF e = <<>> THEN <<>> ELSE <<e>>) \o trimAndDropEmpty(Tail(l))

----------------------------------------------------------------------------
(* parseFrontmatter *)

Delim == <<"-", "-", "-">>

\* meta is an object: its entries [k, v] in insertion order
hasKey(meta, k) == \E i \in 1..Len(meta) : meta[i].k = k

\* setKey keeping the value a key already has
setKey_firstWins(meta, k, v) ==
  IF hasKey(meta, k) THEN meta ELSE Append(meta, [k |-> k, v |-> v])

\* meta[k] = v
setKey(meta, k, v) ==
  IF hasKey(meta, k)
  THEN [i \in 1..Len(meta) |-> IF meta[i].k = k THEN [k |-> k, v |-> v] ELSE meta[i]]
  ELSE Append(meta, [k |-> k, v |-> v])

\* meta[k], undefined when the key is absent
getKey(meta, k) ==
  IF hasKey(meta, k)
  THEN LET i == CHOOSE j \in 1..Len(meta) : meta[j].k = k IN meta[i].v
  ELSE Undef

\* the position in the line at which the key ends and the value begins
separatorOf(line) == indexOf(line, <<":">>, 0)

\* the value stored for the text v after the separator, already trimmed
parseValue(v) ==
  IF startsWith(v, <<"[">>) /\ endsWith(v, <<"]">>)
  THEN List(trimAndDropEmpty(split(slice(v, 1, Len(v) - 1), ",")))
  ELSE Str(v)

\* the body of the forEach callback: one line applied to meta
parseLine(meta, line) ==
  LET idx == separatorOf(line)
  IN IF idx = -1 THEN meta
     ELSE LET k == trim(slice(line, 0, idx))
              v == trim(slice(line, idx + 1, Len(line)))
          IN setKey(meta, k, parseValue(v))

RECURSIVE parseLines(_, _)
parseLines(meta, lines) ==
  IF lines = <<>> THEN meta
  ELSE parseLines(parseLine(meta, Head(lines)), Tail(lines))

\* closingOf searching for the delimiter anywhere, not at a line start
closingOf_anywhere(doc) == indexOf(doc, Delim, 3)

\* the position of the closing delimiter, or -1
closingOf(doc) == indexOf(doc, <<"\n">> \o Delim, 3)

parseFrontmatter(doc) ==
  IF ~startsWith(doc, Delim) THEN [meta |-> <<>>, body |-> doc]
  ELSE LET end == closingOf(doc)
       IN IF end = -1 THEN [meta |-> <<>>, body |-> doc]
          ELSE LET fm == trim(slice(doc, 3, end))
                   body == trimStart(slice(doc, end + 4, Len(doc)))
               IN [meta |-> parseLines(<<>>, split(fm, "\n")), body |-> body]

----------------------------------------------------------------------------
(* normalizeTags, renderCard, buildTagCounts, renderTagbar *)

\* the array returned for an undefined, string or array argument
normalizeTags(tags) ==
  IF Falsy(tags) THEN <<>>
  ELSE IF tags.t = "list" THEN tags.v
  ELSE trimAndDropEmpty(split(tags.v, ","))

\* x ?? y
orElse(x, y) == IF x.t \in {"undef", "null"} THEN y ELSE x

\* the card of a post: the identifier its links carry, its title, its tags
renderCard(post) ==
  [idOrSlug |-> orElse(post.id, post.slug),
   title |-> post.title,
   tags |-> normalizeTags(post.tags)]

\* counts.set(key, (counts.get(key) || 0) + 1) on a Map kept in insertion order
bump(counts, key) ==
  IF \E i \in 1..Len(counts) : counts[i].tag = key
  THEN [i \in 1..Len(counts) |->
          IF counts[i].tag = key
          THEN [tag |-> key, count |-> counts[i].count + 1]
          ELSE counts[i]]
  ELSE Append(counts, [tag |-> key, count |-> 1])

\* the tags in the order posts.forEach and the inner forEach visit them
RECURSIVE visitedTags(_)
visitedTags(ps) ==
  IF ps = <<>> THEN <<>>
  ELSE normalizeTags(Head(ps).tags) \o visitedTags(Tail(ps))

\* the Map after the first n visits
RECURSIVE countsAfter(_, _)
countsAfter(tags, n) ==
  IF n = 0 THEN <<>> ELSE bump(countsAfter(tags, n - 1), tags[n])

\* sortsBefore with the comparator's operands swapped
sortsBefore_ascending(a, b) == a.count - b.count < 0

\* the comparator (a, b) => b[1] - a[1] says a sorts before b when negative
sortsBefore(a, b) == b.count - a.count < 0

\* Array.prototype.sort is stable: e goes before the first entry it sorts before
RECURSIVE insertSorted(_, _)
insertSorted(sorted, e) ==
  IF sorted = <<>> THEN <<e>>
  ELSE IF sortsBefore(e, Head(sorted)) THEN <<e>> \o sorted
  ELSE <<Head(sorted)>> \o insertSorted(Tail(sorted), e)

\* the first n entries, sorted
RECURSIVE sortedPrefix(_, _)
sortedPrefix(entries, n) ==
  IF n = 0 THEN <<>>
  ELSE insertSorted(sortedPrefix(entries, n - 1), entries[n])

buildTagCounts(ps) ==
  LET visited == visitedTags(ps)
      entries == countsAfter(visited, Len(visited))
  IN sortedPrefix(entries, Len(entries))

\* the number of aggregated entries the tag bar shows
TopTags == 12

topOf(entries) == slice(entries, 0, TopTags)

\* the chip mk(href, text, active): all marks the 'all posts' chip
chipAll(activeTag) ==
  [all |-> TRUE, tag |-> <<>>, count |-> 0, active |-> Falsy(activeTag)]

chipTag(e, activeTag) ==
  [all |-> FALSE, tag |-> e.tag, count |-> e.count,
   active |-> ~Falsy(activeTag) /\ toLowerCase(e.tag) = toLowerCase(activeTag.v)]

\* the children of #tagbar after renderTagbar; bar is left alone when the
\* shell has no #tagbar element
renderTagbar(bar, allPosts, activeTag) ==
  IF ~bar.present THEN bar
  ELSE LET top == topOf(buildTagCounts(allPosts))
       IN [present |-> TRUE,
           chips |-> <<chipAll(activeTag)>> \o
                     [i \in 1..Len(top) |-> chipTag(top[i], activeTag)]]

----------------------------------------------------------------------------
(* Values of the variables a specification does not use *)

NoParse == [meta |-> <<>>, body |-> <<>>]
NoUrl == [tag |-> Null, page |-> 0, slug |-> Null]
NoArticle == [title |-> Undef, tags |-> <<>>, content |-> <<>>]
NoSubtitle == [tag |-> Null, n |-> 0]
NoTagbar == [present |-> FALSE, chips |-> <<>>]

PageIdle ==
  /\ view = "none" /\ url = NoUrl /\ search = <<>> /\ listening = FALSE
  /\ index = <<>> /\ posts = <<>> /\ grid = <<>> /\ count = -1
  /\ tagbar = NoTagbar /\ subtitle = NoSubtitle /\ notice = "none"
  /\ thrown = "none" /\ requests = <<>> /\ article = NoArticle

pageVars == <<view, url, search, listening, index, posts, grid, count,
              tagbar, subtitle, notice, thrown, requests, article>>

----------------------------------------------------------------------------
(* Specification of parseFrontmatter over bounded documents *)

\* a document is the concatenation of at most MaxPieces pieces
MaxPieces == 4

Pieces ==
  { Delim \o <<"\n">>,
    Delim,
    <<"-">>,
    <<"k", ":", "a", "\n">>,
    <<"k", " ", ":", " ", "[", "a", ",", " ", ",", "b", " ", "]", "\n">>,
    <<"j", ":", "b", ":", "[", "]", "\n">>,
    <<" ", "x", "\n">>,
    <<"\n">> }

RECURSIVE DocsOf(_)
DocsOf(n) ==
  IF n = 0 THEN { <<>> }
  ELSE LET shorter == DocsOf(n - 1)
       IN shorter \cup { d \o p : d \in shorter, p \in Pieces }

Docs == DocsOf(MaxPieces)

InitFM ==
  /\ pc = "call"
  /\ md \in Docs
  /\ parsed = NoParse
  /\ tagsArg = Undef /\ tagsRet = <<>>
  /\ PageIdle

ParseFrontmatter ==
  /\ pc = "call"
  /\ parsed' = parseFrontmatter(md)
  /\ pc' = "return"
  /\ UNCHANGED <<md, tagsArg, tagsRet, pageVars>>

NextFM == ParseFrontmatter

SpecFM == InitFM /\ [][NextFM]_vars

----------------------------------------------------------------------------
(* Properties of parseFrontmatter *)

LinesOf(doc) == split(doc, "\n")

\* the lines after the first that begin with the delimiter
ClosingLines(doc) ==
  { i \in 2..Len(LinesOf(doc)) : startsWith(LinesOf(doc)[i], Delim) }

Unfenced(doc) == ~startsWith(doc, Delim) \/ ClosingLines(doc) = {}

WellFormed(doc) == LinesOf(doc)[1] = Delim /\ ClosingLines(doc) # {}

BlockLines(doc) ==
  LET c == CHOOSE i \in ClosingLines(doc) : \A j \in ClosingLines(doc) : i <= j
  IN SubSeq(LinesOf(doc), 2, c - 1)

HasColon(line) == \E i \in 1..Len(line) : line[i] = ":"

FirstColon(line) ==
  CHOOSE i \in 1..Len(line) : line[i] = ":" /\ \A j \in 1..(i - 1) : line[j] # ":"

KeyOfLine(line) == trim(SubSeq(line, 1, FirstColon(line) - 1))

RawValueOfLine(line) == trim(SubSeq(line, FirstColon(line) + 1, Len(line)))

NonEmpty(s) == s # <<>>

\* what a trimmed value text stands for
ValueOfText(raw) ==
  IF Len(raw) >= 2 /\ raw[1] = "[" /\ raw[Len(raw)] = "]"
  THEN LET elems == split(SubSeq(raw, 2, Len(raw) - 1), ",")
       IN List(SelectSeq([i \in 1..Len(elems) |-> trim(elems[i])], NonEmpty))
  ELSE Str(raw)

\* the value of the last key line of the block that carries key k
LastValueFor(doc, k) ==
  LET ls == BlockLines(doc)
      carriers == { i \in 1..Len(ls) : HasColon(ls[i]) /\ KeyOfLine(ls[i]) = k }
      last == CHOOSE i \in carriers : \A j \in carriers : j <= i
  IN ValueOfText(RawValueOfLine(ls[last]))

KeysOfBlock(doc) ==
  LET ls == BlockLines(doc)
  IN { KeyOfLine(ls[i]) : i \in { j \in 1..Len(ls) : HasColon(ls[j]) } }

\* C4: for a well-formed block the metadata has exactly the keys of the
\* block's key lines (first colon separates, colon-less lines are skipped),
\* each mapped to the value of the last line carrying it; a value wrapped in
\* [...] is the list of its trimmed non-empty comma-separated elements in
\* order, any other value the trimmed scalar.
C4_LastWriteWins ==
  (pc = "return" /\ WellFormed(md)) =>
     /\ { parsed.meta[i].k : i \in 1..Len(parsed.meta) } = KeysOfBlock(md)
     /\ \A i, j \in 1..Len(parsed.meta) :
           parsed.meta[i].k = parsed.meta[j].k => i = j
     /\ \A k \in KeysOfBlock(md) : getKey(parsed.meta, k) = LastValueFor(md, k)

\* a scalar overwritten by a later list line with the same key
C4_Witness ==
  /\ pc = "return" /\ WellFormed(md)
  /\ Len(SelectSeq(BlockLines(md), HasColon)) = 2
  /\ parsed.meta = << [k |-> <<"k">>, v |-> List(<< <<"a">>, <<"b">> >>)] >>

----------------------------------------------------------------------------
(* Specification of normalizeTags over bounded arguments *)

\* a scalar argument is the concatenation of at most MaxTagPieces pieces
MaxTagPieces == 3

\* an array argument has at most MaxTagList elements
MaxTagList == 2

TagPieces == { <<"a">>, <<"b">>, <<" ">>, <<",">> }

RECURSIVE TagStringsOf(_)
TagStringsOf(n) ==
  IF n = 0 THEN { <<>> }
  ELSE LET shorter == TagStringsOf(n - 1)
       IN shorter \cup { d \o p : d \in shorter, p \in TagPieces }

\* elements an array in the index may hold
TagElems == { <<"a">>, <<"b">>, <<" ", "a">>, <<"b", " ">>, <<>> }

RECURSIVE TagListsOf(_)
TagListsOf(n) ==
  IF n = 0 THEN { <<>> }
  ELSE LET shorter == TagListsOf(n - 1)
       IN shorter \cup { Append(l, e) : l \in shorter, e \in TagElems }

TagInputs ==
  {Undef} \cup { Str(x) : x \in TagStringsOf(MaxTagPieces) }
          \cup { List(l) : l \in TagListsOf(MaxTagList) }

FnIdle == md = <<>> /\ parsed = NoParse

InitTags ==
  /\ pc = "call"
  /\ tagsArg \in TagInputs
  /\ tagsRet = <<>>
  /\ FnIdle
  /\ PageIdle

NormalizeTags ==
  /\ pc = "call"
  /\ tagsRet' = normalizeTags(tagsArg)
  /\ pc' = "return"
  /\ UNCHANGED <<md, parsed, tagsArg, pageVars>>

NextTags == NormalizeTags

SpecTags == InitTags /\ [][NextTags]_vars

----------------------------------------------------------------------------
(* Properties of normalizeTags *)

Trimmed(x) == x = <<>> \/ (~IsWs(x[1]) /\ ~IsWs(x[Len(x)]))

\* the elements of the argument, left to right
ElementsOf(tags) ==
  IF tags.t = "list" THEN tags.v
  ELSE IF tags.t = "str" THEN split(tags.v, ",")
  ELSE <<>>

\* C5: for an undefined or empty argument, an array or a scalar string, the
\* returned list holds only trimmed non-empty strings, and they are the
\* argument's elements (an array's elements, a scalar's comma-separated
\* parts), trimmed, in their original order.
C5_TrimmedNonEmptyInOrder ==
  pc = "return" =>
     /\ \A i \in 1..Len(tagsRet) : Trimmed(tagsRet[i]) /\ tagsRet[i] # <<>>
     /\ LET es == ElementsOf(tagsArg)
        IN tagsRet = SelectSeq([i \in 1..Len(es) |-> trim(es[i])], NonEmpty)

----------------------------------------------------------------------------
(* The page controllers *)

\* the text a value contributes to Array.prototype.join
textOf(x) == IF x.t \in {"undef", "null"} THEN <<>> ELSE x.v

\* the string applyFilter searches for one post
haystack(p) ==
  toLowerCase(join(<<textOf(p.title), textOf(p.excerpt),
                     join(normalizeTags(p.tags), " ")>>, " "))

\* queryOf without the lower-casing
queryOf_caseSensitive(value) == trim(value)

\* the query applyFilter derives from search.value
queryOf(value) == toLowerCase(trim(value))

RECURSIVE keepMatching(_, _)
keepMatching(ps, q) ==
  IF ps = <<>> THEN <<>>
  ELSE (IF includes(haystack(Head(ps)), q) THEN <<Head(ps)>> ELSE <<>>)
       \o keepMatching(Tail(ps), q)

\* the constant filtered of applyFilter
filterPosts(ps, value) ==
  LET q == queryOf(value)
  IN IF q = <<>> THEN ps ELSE keepMatching(ps, q)

\* #grid after applyFilter
cardsOf(ps) == [i \in 1..Len(ps) |-> renderCard(ps[i])]

RECURSIVE lowerAll(_)
lowerAll(l) ==
  IF l = <<>> THEN <<>> ELSE <<toLowerCase(Head(l))>> \o lowerAll(Tail(l))

hasElement(l, x) == \E i \in 1..Len(l) : l[i] = x

\* posts.filter(p => normalizeTags(p.tags).map(lower).includes(tag.lower))
RECURSIVE keepTagged(_, _)
keepTagged(ps, tag) ==
  IF ps = <<>> THEN <<>>
  ELSE (IF hasElement(lowerAll(normalizeTags(Head(ps).tags)), toLowerCase(tag))
        THEN <<Head(ps)>> ELSE <<>>)
       \o keepTagged(Tail(ps), tag)

request(kind, arg) == [kind |-> kind, arg |-> arg]

\* requests after trackPage()
trackPage(reqs) == Append(reqs, request("track", Null))

\* async pageIndex() up to its await: loadIndex() issues the index fetch
PageIndexStart ==
  /\ view = "index" /\ pc = "start"
  /\ requests' = Append(requests, request("index", Null))
  /\ pc' = "awaitIndex"
  /\ UNCHANGED <<md, parsed, tagsArg, tagsRet, view, url, search, listening,
                 index, posts, grid, count, tagbar, subtitle, notice, thrown,
                 article>>

\* the index fetch resolves with a success status and a payload that parses:
\* the rest of pageIndex runs
IndexLoaded(payload) ==
  /\ view = "index" /\ pc = "awaitIndex"
  /\ LET loaded == IF Falsy(payload.posts) THEN <<>> ELSE payload.posts.v
         shown == IF Falsy(url.tag) THEN loaded ELSE keepTagged(loaded, url.tag.v)
         matched == filterPosts(shown, search)
     IN /\ index' = loaded
        /\ tagbar' = renderTagbar(tagbar, loaded, url.tag)
        /\ posts' = shown
        /\ subtitle' = IF Falsy(url.tag) THEN subtitle
                       ELSE [tag |-> url.tag, n |-> Len(shown)]
        /\ listening' = TRUE
        /\ grid' = cardsOf(matched)
        /\ count' = Len(matched)
        /\ requests' = trackPage(requests)
  /\ pc' = "ready"
  /\ UNCHANGED <<md, parsed, tagsArg, tagsRet, view, url, search, notice,
                 thrown, article>>

\* IndexFailed retrying the retrieval instead of giving up
IndexFailed_retry(err) ==
  /\ view = "index" /\ pc = "awaitIndex"
  /\ requests' = Append(requests, request("index", Null))
  /\ UNCHANGED <<pc, md, parsed, tagsArg, tagsRet, view, url, search,
                 listening, index, posts, grid, count, tagbar, subtitle,
                 notice, thrown, article>>

\* the index fetch does not succeed: a non-success status ("index load
\* failed"), a payload res.json() cannot parse, or a rejected fetch.  Nothing
\* in pageIndex catches what loadIndex() throws: the promise pageIndex
\* returned rejects with it and the rest of pageIndex never runs
IndexFailed(err) ==
  /\ view = "index" /\ pc = "awaitIndex"
  /\ thrown' = err
  /\ pc' = "rejected"
  /\ UNCHANGED <<md, parsed, tagsArg, tagsRet, view, url, search, listening,
                 index, posts, grid, count, tagbar, subtitle, notice, requests,
                 article>>

\* the viewer edits #search; the input event runs applyFilter once it is
\* registered
SearchInput(value) ==
  /\ view = "index"
  /\ value # search
  /\ search' = value
  /\ IF listening
     THEN LET matched == filterPosts(posts, value)
          IN /\ grid' = cardsOf(matched)
             /\ count' = Len(matched)
     ELSE UNCHANGED <<grid, count>>
  /\ UNCHANGED <<pc, md, parsed, tagsArg, tagsRet, view, url, listening, index,
                 posts, tagbar, subtitle, notice, thrown, requests, article>>

\* slugGiven without the check
slugGiven_always(slug) == TRUE

\* whether pagePost goes on to retrieve the document for this slug
slugGiven(slug) == ~Falsy(slug)

\* async pagePost() up to its first await
PagePostStart ==
  /\ view = "post" /\ pc = "start"
  /\ IF slugGiven(url.slug)
     THEN /\ requests' = Append(requests, request("post", url.slug))
          /\ pc' = "awaitPost"
          /\ UNCHANGED notice
     ELSE /\ notice' = "notSpecified"
          /\ pc' = "done"
          /\ UNCHANGED requests
  /\ UNCHANGED <<md, parsed, tagsArg, tagsRet, view, url, search, listening,
                 index, posts, grid, count, tagbar, subtitle, thrown, article>>

\* the document fetch resolves with a non-success status
PostFailed ==
  /\ view = "post" /\ pc = "awaitPost"
  /\ notice' = "loadFailed"
  /\ pc' = "done"
  /\ UNCHANGED <<md, parsed, tagsArg, tagsRet, view, url, search, listening,
                 index, posts, grid, count, tagbar, subtitle, thrown, requests,
                 article>>

\* the document fetch itself rejects: nothing catches it
PostRejected ==
  /\ view = "post" /\ pc = "awaitPost"
  /\ thrown' = "TypeError"
  /\ pc' = "rejected"
  /\ UNCHANGED <<md, parsed, tagsArg, tagsRet, view, url, search, listening,
                 index, posts, grid, count, tagbar, subtitle, notice, requests,
                 article>>

KeyTitle == <<"t", "i", "t", "l", "e">>
KeyTags == <<"t", "a", "g", "s">>

\* the document fetch resolves with the text doc: the rest of pagePost runs
PostLoaded(doc) ==
  /\ view = "post" /\ pc = "awaitPost"
  /\ md' = doc
  /\ parsed' = parseFrontmatter(doc)
  /\ LET fields == parsed'.meta
         named == getKey(fields, KeyTitle)
     IN article' = [title |-> IF Falsy(named) THEN url.slug ELSE named,
                    tags |-> normalizeTags(getKey(fields, KeyTags)),
                    content |-> parsed'.body]
  /\ pc' = "done"
  /\ UNCHANGED <<tagsArg, tagsRet, view, url, search, listening, index, posts,
                 grid, count, tagbar, subtitle, notice, thrown, requests>>

----------------------------------------------------------------------------
(* Specification of one page view *)

\* the published index holds at most MaxPosts posts
MaxPosts == 3

Post(id, slug, title, excerpt, tags) ==
  [id |-> id, slug |-> Str(slug), title |-> Str(title), excerpt |-> excerpt,
   tags |-> tags]

\* more distinct tags than the tag bar shows
ManyTags ==
  [i \in 1..(TopTags + 1) |->
     <<<<"a">>, <<"b">>, <<"c">>, <<"d">>, <<"e">>, <<"f">>, <<"g">>,
       <<"h">>, <<"i">>, <<"j">>, <<"k">>, <<"l">>, <<"m">>>>[i]]

PostPool ==
  { Post(Str(<<"1">>), <<"a", "i", "-", "b", "o", "t">>, <<"A", "I", " ", "b", "o", "t">>, Undef,
         List(<< <<"a">>, <<"a">>, <<"b">> >>)),
    Post(Undef, <<"d", "o", "g">>, <<"D", "o", "g">>, Str(<<"b", "i", "g", " ", "a", "i">>),
         List(<< <<"b">>, <<"c">> >>)),
    Post(Str(<<"3">>), <<"c", "a", "t">>, <<"C", "a", "t">>, Str(<<>>), Str(<<"A", ",", " ", "i">>)),
    Post(Str(<<"4">>), <<"m", "a", "p">>, <<"M", "a", "p">>, Undef, List(ManyTags)),
    Post(Undef, <<"b">>, <<"b">>, Undef, Undef) }

\* the lists of at most n different posts
RECURSIVE PostListsOf(_)
PostListsOf(n) ==
  IF n = 0 THEN { <<>> }
  ELSE LET shorter == PostListsOf(n - 1)
       IN shorter \cup
          { Append(lp[1], lp[2]) :
              lp \in { x \in shorter \X PostPool :
                         \A i \in 1..Len(x[1]) : x[1][i] # x[2] } }

\* what res.json() may resolve to
IndexPayloads ==
  { [posts |-> Undef] } \cup { [posts |-> List(l)] : l \in PostListsOf(MaxPosts) }

\* what the viewer may have in #search
SearchValues ==
  { <<>>, <<" ">>, <<"a", "i">>, <<" ", "A", "I", " ">>, <<"z", "z">>,
    <<"t", " ", " ", "a">> }

\* the query parameters of the index view: tag, and a page number (0: none)
MaxPageParam == 2

TagParams == { Null, Str(<<>>), Str(<<"a">>), Str(<<"C">>) }

SlugParams == { Null, Str(<<>>), Str(<<"s">>) }

\* what res.text() may resolve to
PostDocs ==
  { <<"-", "-", "-", "\n", "t", "i", "t", "l", "e", ":", " ", "H", "i", "\n",
    "t", "a", "g", "s", ":", " ", "[", "a", ",", " ", "b", "]", "\n", "-",
    "-", "-", "\n", "\n", "B", "o", "d", "y">>,
    <<"-", "-", "-", "\n", "t", "a", "g", "s", ":", " ", "a", " ", ",", " ",
    "b", "\n", "-", "-", "-", "\n", "x">>,
    <<"n", "o", " ", "f", "r", "o", "n", "t">>,
    <<"-", "-", "-", "\n", "t", "i", "t", "l", "e", ":", " ", "H", "i",
    "\n">> }

\* the errors loadIndex() can end with
IndexErrors == { "index load failed", "SyntaxError", "TypeError" }

InitPage ==
  /\ pc = "start"
  /\ FnIdle
  /\ tagsArg = Undef /\ tagsRet = <<>>
  /\ view \in {"index", "post"}
  /\ \/ /\ view = "index"
        /\ url \in [tag : TagParams, page : 0..MaxPageParam, slug : {Null}]
        /\ tagbar \in [present : BOOLEAN, chips : {<<>>}]
     \/ /\ view = "post"
        /\ url \in [tag : {Null}, page : {0}, slug : SlugParams]
        /\ tagbar = NoTagbar
  /\ search = <<>> /\ listening = FALSE
  /\ index = <<>> /\ posts = <<>> /\ grid = <<>> /\ count = -1
  /\ subtitle = NoSubtitle /\ notice = "none"
  /\ thrown = "none" /\ requests = <<>> /\ article = NoArticle

NextPage ==
  \/ PageIndexStart
  \/ \E payload \in IndexPayloads : IndexLoaded(payload)
  \/ \E err \in IndexErrors : IndexFailed(err)
  \/ \E value \in SearchValues : SearchInput(value)
  \/ PagePostStart
  \/ PostFailed
  \/ PostRejected
  \/ \E doc \in PostDocs : PostLoaded(doc)

Spec == InitPage /\ [][NextPage]_vars

----------------------------------------------------------------------------
(* Properties of the page controllers *)

Issued(kind) == { i \in 1..Len(requests) : requests[i].kind = kind }

Min(a, b) == IF a < b THEN a ELSE b

\* max(1, ceil(total / 12))
TotalPages(total) == IF total = 0 THEN 1 ELSE (total + 11) \div 12

\* C1: after every render of the index view the current page, which the
\* URL's page parameter carries (absent for page 1), lies between 1 and
\* totalPages = max(1, ceil(total / 12)) for the total number of filtered
\* results: a larger requested page has been clamped and written back.
C1_PageClampedAndWrittenBack ==
  (view = "index" /\ pc = "ready") =>
     LET page == IF url.page = 0 THEN 1 ELSE url.page
     IN /\ 1 <= page /\ page <= TotalPages(count)
        /\ url.page # 1

LetterPairs ==
  { {"a", "A"}, {"b", "B"}, {"c", "C"}, {"d", "D"}, {"h", "H"}, {"i", "I"},
    {"m", "M"} }

SameLetter(x, y) == x = y \/ {x, y} \in LetterPairs

\* q occurs in text at some offset, letter case ignored
ContainsIgnoringCase(text, q) ==
  \E off \in 0..(Len(text) - Len(q)) :
     \A j \in 1..Len(q) : SameLetter(text[off + j], q[j])

\* title, excerpt and normalized tags, joined by single spaces
FieldsText(p) ==
  textOf(p.title) \o <<" ">> \o textOf(p.excerpt) \o <<" ">>
    \o join(normalizeTags(p.tags), " ")

MatchesSearch(p) == ContainsIgnoringCase(FieldsText(p), trim(search))

\* C2: once the index has loaded, and after every search-input event, the
\* grid shows exactly the posts of the loaded (tag-filtered) collection, in
\* index order, whose title, excerpt and normalized tags joined by spaces
\* contain the trimmed query, letter case ignored; an empty or blank query
\* keeps every post, and the count label is the number of posts shown.
C2_GridIsSearchResult ==
  (view = "index" /\ pc = "ready") =>
     LET expected == SelectSeq(posts, MatchesSearch)
     IN /\ grid = cardsOf(expected)
        /\ count = Len(expected)
        /\ (trim(search) = <<>> => expected = posts)

\* a query with capitals and padding that keeps some posts and drops others
C2_Witness ==
  /\ view = "index" /\ pc = "ready"
  /\ search = <<" ", "A", "I", " ">>
  /\ 0 < count /\ count < Len(posts)
  /\ Len(grid) = count

\* every occurrence of a tag in the collection: post and position
TagOccurrences(ps) ==
  UNION { {i} \X (1..Len(normalizeTags(ps[i].tags))) : i \in 1..Len(ps) }

TagAt(ps, o) == normalizeTags(ps[o[1]].tags)[o[2]]

DistinctTags(ps) == { TagAt(ps, o) : o \in TagOccurrences(ps) }

OccurrencesOf(ps, t) ==
  Cardinality({ o \in TagOccurrences(ps) : TagAt(ps, o) = t })

\* C6: the aggregation over the full, unfiltered collection has one entry
\* per distinct tag (tags differing in letter case are distinct), its count
\* the exact number of occurrences of the tag in all posts, in order of
\* non-increasing count; the tag bar shows the 'all posts' chip first and
\* after it the first 12 entries at most.
C6_TagCountsExactAndRanked ==
  (view = "index" /\ pc = "ready") =>
     LET agg == buildTagCounts(index)
         shown == Min(Len(agg), 12)
     IN /\ { agg[i].tag : i \in 1..Len(agg) } = DistinctTags(index)
        /\ Len(agg) = Cardinality(DistinctTags(index))
        /\ \A i \in 1..Len(agg) : agg[i].count = OccurrencesOf(index, agg[i].tag)
        /\ \A i, j \in 1..Len(agg) : i < j => agg[i].count >= agg[j].count
        /\ tagbar.present =>
              /\ Len(tagbar.chips) = 1 + shown
              /\ tagbar.chips[1].all
              /\ \A i \in 1..shown :
                    /\ ~tagbar.chips[i + 1].all
                    /\ tagbar.chips[i + 1].tag = agg[i].tag
                    /\ tagbar.chips[i + 1].count = agg[i].count

\* more distinct tags than the bar shows, one of them counted three times
C6_Witness ==
  /\ view = "index" /\ pc = "ready" /\ tagbar.present
  /\ Len(buildTagCounts(index)) > TopTags
  /\ Len(tagbar.chips) = TopTags + 1
  /\ tagbar.chips[2].count = 3
  /\ tagbar.chips[TopTags + 1].count = 1

\* C7: when the index retrieval fails, the index view puts a visible notice
\* in place of the content and the error does not leave pageIndex.
C7_IndexFailureHandledInline ==
  (view = "index" /\ pc = "rejected") => (notice # "none" /\ thrown = "none")

\* C8: a post view entered without a post identifier shows the 'no post
\* specified' notice and never issues a document retrieval.
C8_NoSlugNoRetrieval ==
  (view = "post" /\ Falsy(url.slug)) =>
     /\ Issued("post") = {}
     /\ pc # "start" => (pc = "done" /\ notice = "notSpecified")

C8_Witness ==
  /\ view = "post" /\ url.slug = Null
  /\ pc = "done" /\ notice = "notSpecified" /\ requests = <<>>

\* C9: one page view issues at most one index retrieval and at most one
\* document retrieval, whatever fails and whatever the viewer types.
C9_AtMostOneRetrievalEach ==
  /\ Cardinality(Issued("index")) <= 1
  /\ Cardinality(Issued("post")) <= 1

\* the viewer has narrowed the loaded collection: still the one retrieval
C9_Witness ==
  /\ view = "index" /\ pc = "ready" /\ listening
  /\ search = <<"z", "z">> /\ count = 0 /\ Len(posts) > 0
  /\ Cardinality(Issued("index")) = 1

\* C10: a post view whose document retrieval succeeds fires the beacon once;
\* one that lacks the identifier or whose retrieval fails fires none.
C10_PostViewFiresBeacon ==
  view = "post" =>
     /\ (pc = "done" /\ notice = "none") => Cardinality(Issued("track")) = 1
     /\ (pc \in {"done", "rejected"} /\ (notice # "none" \/ thrown # "none"))
           => Issued("track") = {}

====
